---- MODULE Spec2Model ----
(***************************************************************************)
(* Model of app-server/src/language_model/runner.rs: provider identities,  *)
(* the model-identifier split of LanguageModelRunner::chat_completion, the *)
(* delegation to a backend executor (with its streaming sink) and the      *)
(* default cost estimation of the EstimateCost trait.                      *)
(*                                                                         *)
(* Strings the code inspects character by character (model identifiers,    *)
(* provider tags) are sequences of one-character strings.  Strings the     *)
(* code only compares or stores (environment variable names, values) are   *)
(* plain strings.  Money (f64 in the code) is an integer number of price   *)
(* units.                                                                  *)
(***************************************************************************)
EXTENDS Integers, Sequences, FiniteSets, TLC

VARIABLES
    op,             \* last provider-identity operation, its arguments and result
    prices,         \* the pricing source: rows per (provider key, model)
    cost,           \* last cost-estimation call, its arguments and result
    models,         \* LanguageModelRunner.models: identity -> executor
    pc,             \* position of the chat_completion call
    call,           \* arguments of the chat_completion call
    registryLookups,\* number of self.models.get calls made by the call
    execCalls,      \* executor invocations made by the call, in order
    produced,       \* response parts the provider has produced so far
    sink,           \* chunks buffered in the call's channel
    received,       \* chunks the receiving end has taken from the channel
    rxOpen,         \* the receiving end of the channel still exists
    result          \* what chat_completion returned

providerVars == <<op>>

costVars == <<prices, cost>>

runnerVars ==
    <<models, pc, call, registryLookups, execCalls, produced, sink, received, rxOpen, result>>

vars == <<providerVars, costVars, runnerVars>>

(***************************************************************************)
(* Bounds                                                                  *)
(***************************************************************************)
MaxSuffixLen == 3

MaxEnvVars == 2

MaxTokens == 2

MaxRate == 2

MaxChunks == 3

ChannelCapacity == 2

(***************************************************************************)
(* Option and Result values                                                *)
(***************************************************************************)
None == [tag |-> "None"]

Some(v) == [tag |-> "Some", val |-> v]

Ok(v) == [tag |-> "Ok", val |-> v]

Err(kind, arg) == [tag |-> "Err", kind |-> kind, arg |-> arg]

(***************************************************************************)
(* Provider identities and tags                                            *)
(***************************************************************************)
LanguageModelProviderName ==
    {"Anthropic", "Mistral", "OpenAI", "OpenAIAzure", "Gemini", "Groq", "Bedrock"}

T_anthropic == <<"a","n","t","h","r","o","p","i","c">>

T_mistral == <<"m","i","s","t","r","a","l">>

T_openai == <<"o","p","e","n","a","i">>

T_openai_azure == <<"o","p","e","n","a","i","-","a","z","u","r","e">>

T_gemini == <<"g","e","m","i","n","i">>

T_groq == <<"g","r","o","q">>

T_bedrock == <<"b","e","d","r","o","c","k">>

\* A from_str with a catch-all arm that picks a provider instead of failing.
from_str_default(s) ==
    CASE s = T_anthropic -> Ok("Anthropic")
      [] s = T_mistral -> Ok("Mistral")
      [] s = T_openai -> Ok("OpenAI")
      [] s = T_openai_azure -> Ok("OpenAIAzure")
      [] s = T_gemini -> Ok("Gemini")
      [] s = T_groq -> Ok("Groq")
      [] s = T_bedrock -> Ok("Bedrock")
      [] OTHER -> Ok("OpenAI")

from_str(s) ==
    CASE s = T_anthropic -> Ok("Anthropic")
      [] s = T_mistral -> Ok("Mistral")
      [] s = T_openai -> Ok("OpenAI")
      [] s = T_openai_azure -> Ok("OpenAIAzure")
      [] s = T_gemini -> Ok("Gemini")
      [] s = T_groq -> Ok("Groq")
      [] s = T_bedrock -> Ok("Bedrock")
      [] OTHER -> Err("Invalid language model provider", s)

AWS_SECRET_ACCESS_KEY == "AWS_SECRET_ACCESS_KEY"

AWS_REGION == "AWS_REGION"

AWS_ACCESS_KEY_ID == "AWS_ACCESS_KEY_ID"

OPENAI_AZURE_RESOURCE_ID == "OPENAI_AZURE_RESOURCE_ID"

OPENAI_AZURE_DEPLOYMENT_NAME == "OPENAI_AZURE_DEPLOYMENT_NAME"

api_key_name(p) ==
    CASE p = "Anthropic" -> "ANTHROPIC_API_KEY"
      [] p = "Mistral" -> "MISTRAL_API_KEY"
      [] p = "OpenAI" -> "OPENAI_API_KEY"
      [] p = "OpenAIAzure" -> "AZURE_API_KEY"
      [] p = "Gemini" -> "GEMINI_API_KEY"
      [] p = "Groq" -> "GROQ_API_KEY"
      [] p = "Bedrock" -> AWS_SECRET_ACCESS_KEY

\* An api_key that falls back to an empty key when the variable is absent.
api_key_or_default(p, env) ==
    LET name == api_key_name(p)
    IN  IF name \in DOMAIN env THEN Ok(env[name]) ELSE Ok("")

api_key(p, env) ==
    LET name == api_key_name(p)
    IN  IF name \in DOMAIN env
        THEN Ok(env[name])
        ELSE Err("Env variables don't contain", name)

\* A required_env_vars whose Bedrock branch forgets the region.
required_env_vars_no_region(p) ==
    {api_key_name(p)}
        \cup (IF p = "Bedrock"
              THEN {AWS_ACCESS_KEY_ID}
              ELSE IF p = "OpenAIAzure"
                   THEN {OPENAI_AZURE_RESOURCE_ID, OPENAI_AZURE_DEPLOYMENT_NAME}
                   ELSE {})

required_env_vars(p) ==
    {api_key_name(p)}
        \cup (IF p = "Bedrock"
              THEN {AWS_REGION, AWS_ACCESS_KEY_ID}
              ELSE IF p = "OpenAIAzure"
                   THEN {OPENAI_AZURE_RESOURCE_ID, OPENAI_AZURE_DEPLOYMENT_NAME}
                   ELSE {})

(***************************************************************************)
(* Inputs of the provider-identity operations                              *)
(***************************************************************************)
DefinedTags ==
    {T_anthropic, T_mistral, T_openai, T_openai_azure, T_gemini, T_groq, T_bedrock}

OtherTags ==
    { <<>>,
      <<"O","p","e","n","A","I">>,
      <<"m","a","d","e","-","u","p">>,
      <<"g","r","o","q"," ">>,
      <<"o","p","e","n">> }

TagCandidates == DefinedTags \cup OtherTags

EnvNames ==
    UNION {required_env_vars(p) : p \in LanguageModelProviderName} \cup {"HOME"}

EnvValues == {"", "k1", "k2"}

Envs ==
    UNION {[D -> EnvValues] : D \in {X \in SUBSET EnvNames : Cardinality(X) <= MaxEnvVars}}

(***************************************************************************)
(* Provider-identity operations as a state machine: op records the        *)
(* operation applied, its arguments and what it returned.  The operations *)
(* are pure, so a behaviour applies one of them once.                     *)
(***************************************************************************)
IdleOp == [name |-> "idle"]

FromStr ==
    \E s \in TagCandidates :
        /\ op = IdleOp
        /\ op' = [name |-> "from_str", s |-> s, out |-> from_str(s)]
        /\ UNCHANGED <<costVars, runnerVars>>

ApiKey ==
    \E p \in LanguageModelProviderName, env \in Envs :
        /\ op = IdleOp
        /\ op' = [name |-> "api_key", p |-> p, env |-> env, out |-> api_key(p, env)]
        /\ UNCHANGED <<costVars, runnerVars>>

RequiredEnvVars ==
    \E p \in LanguageModelProviderName :
        /\ op = IdleOp
        /\ op' = [name |-> "required_env_vars", p |-> p, out |-> required_env_vars(p)]
        /\ UNCHANGED <<costVars, runnerVars>>

(***************************************************************************)
(* Model identifiers                                                       *)
(***************************************************************************)
Sep == ":"

HasSep(s) == \E i \in 1..Len(s) : s[i] = Sep

FirstSep(s) == CHOOSE i \in 1..Len(s) : s[i] = Sep /\ \A j \in 1..(i - 1) : s[j] # Sep

\* str::split(":"): the segments between separators; a string with no
\* separator (the empty string included) is one segment.
RECURSIVE split(_)
split(s) ==
    IF ~HasSep(s)
    THEN <<s>>
    ELSE <<SubSeq(s, 1, FirstSep(s) - 1)>> \o split(SubSeq(s, FirstSep(s) + 1, Len(s)))

\* Itertools::join(":") over a sequence of segments.
RECURSIVE join(_)
join(segs) ==
    IF segs = <<>>
    THEN <<>>
    ELSE IF Len(segs) = 1
         THEN segs[1]
         ELSE segs[1] \o <<Sep>> \o join(Tail(segs))

\* providers::utils::get_provider: the provider tag of an identifier, the
\* text before its first separator; none when it has no separator.  (The
\* runner rejects an identifier with no separator whatever this returns:
\* its model name is then empty.)
get_provider(model) ==
    IF HasSep(model) THEN Some(SubSeq(model, 1, FirstSep(model) - 1)) ELSE None

\* A model name that keeps only the segment after the first separator.
model_name_second_segment(model) ==
    LET segs == split(model)
    IN  IF Len(segs) >= 2 THEN segs[2] ELSE <<>>

\* model.split(":").skip(1).join(":")
model_name(model) == join(Tail(split(model)))

(***************************************************************************)
(* LanguageModelRunner                                                     *)
(***************************************************************************)
LanguageModelProvider ==
    {"Anthropic", "Gemini", "Groq", "Mistral", "OpenAI", "OpenAIAzure", "AnthropicBedrock"}

\* The registry built at startup: one executor per identity.
Registry ==
    [p \in LanguageModelProviderName |-> IF p = "Bedrock" THEN "AnthropicBedrock" ELSE p]

\* An emptiness test that never fires.
is_empty_never(s) == FALSE

\* String::is_empty
is_empty(s) == Len(s) = 0

\* An argument list that does not hand the sink over to the executor.
executor_args_without_tx(name, provider_name, tx) ==
    [model |-> name, provider_name |-> provider_name, tx |-> FALSE]

\* The arguments of executor.chat_completion; tx is TRUE for Some(sender).
executor_args(name, provider_name, tx) ==
    [model |-> name, provider_name |-> provider_name, tx |-> tx]

InvalidFormat == Err("Invalid model format", <<>>)

\* A runner that resolves the provider and reads the registry before it
\* looks at the model name.
chat_completion_lookup_first(registry, model, tx) ==
    LET provider == get_provider(model)
        name == model_name(model)
        provider_name == IF provider.tag = "None" THEN InvalidFormat ELSE from_str(provider.val)
    IN  IF provider.tag = "None" \/ provider_name.tag = "Err"
        THEN [tag |-> "Return", result |-> provider_name, lookups |-> 0]
        ELSE IF is_empty(name)
             THEN [tag |-> "Return", result |-> InvalidFormat, lookups |-> 1]
             ELSE [tag |-> "Delegate",
                   executor |-> registry[provider_name.val],
                   args |-> executor_args(name, provider_name.val, tx),
                   lookups |-> 1]

\* LanguageModelRunner::chat_completion up to the executor call: either the
\* error it returns, the panic of unwrap(), or the executor and arguments.
chat_completion(registry, model, tx) ==
    LET provider == get_provider(model)
    IN  IF provider.tag = "None"
        THEN [tag |-> "Return", result |-> InvalidFormat, lookups |-> 0]
        ELSE LET name == model_name(model)
             IN  IF is_empty(name)
                 THEN [tag |-> "Return", result |-> InvalidFormat, lookups |-> 0]
                 ELSE LET provider_name == from_str(provider.val)
                      IN  IF provider_name.tag = "Err"
                          THEN [tag |-> "Return", result |-> provider_name, lookups |-> 0]
                          ELSE IF provider_name.val \notin DOMAIN registry
                               THEN [tag |-> "Panic", lookups |-> 1]
                               ELSE [tag |-> "Delegate",
                                     executor |-> registry[provider_name.val],
                                     args |-> executor_args(name, provider_name.val, tx),
                                     lookups |-> 1]

(***************************************************************************)
(* Inputs of the runner                                                    *)
(***************************************************************************)
SuffixChars == {Sep, " ", "m"}

RECURSIVE SeqsUpTo(_, _)
SeqsUpTo(S, n) ==
    IF n = 0
    THEN {<<>>}
    ELSE LET shorter == SeqsUpTo(S, n - 1)
         IN  shorter \cup {Append(q, c) : q \in shorter, c \in S}

Suffixes == SeqsUpTo(SuffixChars, MaxSuffixLen)

Identifiers == {t \o x : t \in TagCandidates, x \in Suffixes}

Payloads == {"a", "b"}

(***************************************************************************)
(* The chat_completion call and the backend it delegates to                *)
(***************************************************************************)
NoCall == [model |-> <<>>, tx |-> FALSE]

NoResult == [tag |-> "Pending"]

RunnerCall ==
    \E model \in Identifiers, tx \in BOOLEAN :
        /\ pc = "idle"
        /\ LET d == chat_completion(models, model, tx)
           IN  /\ call' = [model |-> model, tx |-> tx]
               /\ registryLookups' = d.lookups
               /\ IF d.tag = "Delegate"
                  THEN /\ execCalls' = Append(execCalls, [executor |-> d.executor, args |-> d.args])
                       /\ pc' = "executing"
                       /\ result' = result
                  ELSE /\ execCalls' = execCalls
                       /\ pc' = "done"
                       /\ result' = IF d.tag = "Panic" THEN [tag |-> "Panic"] ELSE d.result
        /\ UNCHANGED <<models, produced, sink, received, rxOpen>>
        /\ UNCHANGED <<providerVars, costVars>>

\* The executor reads one more part of the provider's response and, in
\* streaming mode, sends it on the sink; a full channel blocks the send.
BackendChunk ==
    \E c \in Payloads :
        /\ pc = "executing"
        /\ Len(produced) < MaxChunks
        /\ IF execCalls[Len(execCalls)].args.tx
           THEN /\ rxOpen
                /\ Len(sink) < ChannelCapacity
                /\ sink' = Append(sink, c)
           ELSE sink' = sink
        /\ produced' = Append(produced, c)
        /\ UNCHANGED <<models, pc, call, registryLookups, execCalls, received, rxOpen, result>>
        /\ UNCHANGED <<providerVars, costVars>>

\* A send on a channel whose receiving end is gone fails the call.
BackendSendFails ==
    /\ pc = "executing"
    /\ Len(produced) < MaxChunks
    /\ execCalls[Len(execCalls)].args.tx
    /\ ~rxOpen
    /\ result' = Err("SinkClosed", <<>>)
    /\ pc' = "done"
    /\ UNCHANGED <<models, call, registryLookups, execCalls, produced, sink, received, rxOpen>>
    /\ UNCHANGED <<providerVars, costVars>>

\* The provider closes its stream (final summary) or fails; the runner
\* returns the executor's result.
BackendFinish ==
    \E ok \in BOOLEAN :
        /\ pc = "executing"
        /\ result' = IF ok THEN Ok(produced) ELSE Err("BackendRejected", <<>>)
        /\ pc' = "done"
        /\ UNCHANGED <<models, call, registryLookups, execCalls, produced, sink, received, rxOpen>>
        /\ UNCHANGED <<providerVars, costVars>>

ConsumerRecv ==
    /\ call.tx
    /\ rxOpen
    /\ sink # <<>>
    /\ received' = Append(received, Head(sink))
    /\ sink' = Tail(sink)
    /\ UNCHANGED <<models, pc, call, registryLookups, execCalls, produced, rxOpen, result>>
    /\ UNCHANGED <<providerVars, costVars>>

ConsumerDrop ==
    /\ call.tx
    /\ rxOpen
    /\ pc = "executing"
    /\ rxOpen' = FALSE
    /\ sink' = <<>>
    /\ UNCHANGED <<models, pc, call, registryLookups, execCalls, produced, received, result>>
    /\ UNCHANGED <<providerVars, costVars>>

(***************************************************************************)
(* Cost estimation                                                         *)
(***************************************************************************)
\* The pricing-table key of an executor.
db_provider_name(executor) ==
    CASE executor = "Anthropic" -> "anthropic"
      [] executor = "Gemini" -> "gemini"
      [] executor = "Groq" -> "groq"
      [] executor = "Mistral" -> "mistral"
      [] executor = "OpenAI" -> "openai"
      [] executor = "OpenAIAzure" -> "openai-azure"
      [] executor = "AnthropicBedrock" -> "bedrock"

\* costs::estimate_input_cost: each token category at its own rate; absent
\* when the pricing source has no input row for (provider, model).
costs_estimate_input_cost(table, provider, model, tokens) ==
    IF <<provider, model>> \notin DOMAIN table.input
    THEN None
    ELSE LET row == table.input[<<provider, model>>]
         IN  Some(tokens.regular_input_tokens * row.regular
                  + tokens.cache_write_tokens * row.cache_write
                  + tokens.cache_read_tokens * row.cache_read)

\* costs::estimate_output_cost: absent when there is no output row.
costs_estimate_output_cost(table, provider, model, output_tokens) ==
    IF <<provider, model>> \notin DOMAIN table.output
    THEN None
    ELSE Some(output_tokens * table.output[<<provider, model>>])

\* An input estimate that also bills every input token as a cache write.
estimate_input_cost_cache_write(table, executor, model, input_tokens) ==
    costs_estimate_input_cost(table, db_provider_name(executor), model,
        [regular_input_tokens |-> input_tokens,
         cache_write_tokens |-> input_tokens,
         cache_read_tokens |-> 0])

estimate_input_cost(table, executor, model, input_tokens) ==
    costs_estimate_input_cost(table, db_provider_name(executor), model,
        [regular_input_tokens |-> input_tokens,
         cache_write_tokens |-> 0,
         cache_read_tokens |-> 0])

estimate_output_cost(table, executor, model, output_tokens) ==
    costs_estimate_output_cost(table, db_provider_name(executor), model, output_tokens)

\* An estimate that reports a zero cost when the input price is missing.
estimate_cost_on_input_zero(input_cost) ==
    IF input_cost.tag = "None"
    THEN [tag |-> "Return", ret |-> Some(0), input_cost |-> 0]
    ELSE [tag |-> "Continue", ret |-> None, input_cost |-> input_cost.val]

\* An estimate that prices a missing input at zero and goes on to the
\* output lookup.
estimate_cost_on_input_continue(input_cost) ==
    IF input_cost.tag = "None"
    THEN [tag |-> "Continue", ret |-> None, input_cost |-> 0]
    ELSE [tag |-> "Continue", ret |-> None, input_cost |-> input_cost.val]

\* EstimateCost::estimate_cost once the input estimate has resolved: the
\* or_else logs the warning and `?` returns None; otherwise the call goes
\* on with the unwrapped input cost.
estimate_cost_on_input(input_cost) ==
    IF input_cost.tag = "None"
    THEN [tag |-> "Return", ret |-> None, input_cost |-> 0]
    ELSE [tag |-> "Continue", ret |-> None, input_cost |-> input_cost.val]

\* EstimateCost::estimate_cost once the output estimate has resolved: `?`
\* returns None, otherwise the sum.
estimate_cost_on_output(input_cost, output_cost) ==
    IF output_cost.tag = "None"
    THEN None
    ELSE Some(input_cost + output_cost.val)

(***************************************************************************)
(* Inputs of the cost estimation                                           *)
(***************************************************************************)
CostExecutors == {"OpenAI", "AnthropicBedrock"}

CostModels == {"m1"}

Rates == 1..MaxRate

InputRows == [regular : Rates, cache_write : Rates, cache_read : Rates]

TokenCounts == 0..MaxTokens

PriceKeys == {<<db_provider_name(e), m>> : e \in CostExecutors, m \in CostModels}

EmptyPrices == [input |-> <<>>, output |-> <<>>]

\* The input sides of a pricing source: no row, or one row for one key.
InputSides == {<<>>} \cup {k :> r : k \in PriceKeys, r \in InputRows}

\* The output sides of a pricing source: no row, or one rate for one key.
OutputSides == {<<>>} \cup {k :> r : k \in PriceKeys, r \in Rates}

PriceTables == {[input |-> i, output |-> o] : i \in InputSides, o \in OutputSides}

\* What a lookup of key k finds in one side of the pricing source.
RowSeen(side, k) == IF k \in DOMAIN side THEN Some(side[k]) ELSE None

NotLooked == [tag |-> "NotLooked"]

Pending == [tag |-> "Pending"]

IdleCost == [name |-> "idle", stage |-> "idle"]

(***************************************************************************)
(* The cost estimation as a state machine.  Each estimate function awaits  *)
(* its lookup, so estimate_cost is two steps, the input lookup and the     *)
(* output lookup, and other tasks run between them: the pricing source may *)
(* be refreshed at any time.  input_seen and output_seen record what each  *)
(* lookup found in the pricing source when it was made.                    *)
(***************************************************************************)
EstimateInputCost ==
    \E e \in CostExecutors, m \in CostModels, n \in TokenCounts :
        /\ cost = IdleCost
        /\ cost' = [name |-> "estimate_input_cost", executor |-> e, model |-> m,
                    input_tokens |-> n, output_tokens |-> 0, stage |-> "done",
                    input_seen |-> RowSeen(prices.input, <<db_provider_name(e), m>>),
                    output_seen |-> NotLooked, input_cost |-> 0,
                    ret |-> estimate_input_cost(prices, e, m, n), calls |-> <<>>]
        /\ UNCHANGED <<prices, providerVars, runnerVars>>

EstimateOutputCost ==
    \E e \in CostExecutors, m \in CostModels, n \in TokenCounts :
        /\ cost = IdleCost
        /\ cost' = [name |-> "estimate_output_cost", executor |-> e, model |-> m,
                    input_tokens |-> 0, output_tokens |-> n, stage |-> "done",
                    input_seen |-> NotLooked,
                    output_seen |-> RowSeen(prices.output, <<db_provider_name(e), m>>),
                    input_cost |-> 0,
                    ret |-> estimate_output_cost(prices, e, m, n), calls |-> <<>>]
        /\ UNCHANGED <<prices, providerVars, runnerVars>>

\* estimate_cost up to its first `?`: the input estimate on the pricing
\* source as it is now.
EstimateCostInput ==
    \E e \in CostExecutors, m \in CostModels, i \in TokenCounts, o \in TokenCounts :
        /\ cost = IdleCost
        /\ LET d == estimate_cost_on_input(estimate_input_cost(prices, e, m, i))
           IN  cost' = [name |-> "estimate_cost", executor |-> e, model |-> m,
                        input_tokens |-> i, output_tokens |-> o,
                        stage |-> IF d.tag = "Return" THEN "done" ELSE "awaiting_output",
                        input_seen |-> RowSeen(prices.input, <<db_provider_name(e), m>>),
                        output_seen |-> NotLooked,
                        input_cost |-> d.input_cost,
                        ret |-> IF d.tag = "Return" THEN d.ret ELSE Pending,
                        calls |-> <<"estimate_input_cost">>]
        /\ UNCHANGED <<prices, providerVars, runnerVars>>

\* The rest of estimate_cost: the output estimate on the pricing source as
\* it is now, and the sum.
EstimateCostOutput ==
    /\ cost.name = "estimate_cost"
    /\ cost.stage = "awaiting_output"
    /\ cost' = [cost EXCEPT
            !.stage = "done",
            !.output_seen =
                RowSeen(prices.output, <<db_provider_name(cost.executor), cost.model>>),
            !.ret = estimate_cost_on_output(cost.input_cost,
                        estimate_output_cost(prices, cost.executor, cost.model,
                                             cost.output_tokens)),
            !.calls = Append(cost.calls, "estimate_output_cost")]
    /\ UNCHANGED <<prices, providerVars, runnerVars>>

\* Another task refreshes the pricing source: one side gets a row, another
\* row, or loses its row.  A refresh after the estimate has returned cannot
\* change what it returned, so refreshes are followed up to that point.
RefreshPrices ==
    /\ cost.stage # "done"
    /\ \/ \E i \in InputSides : prices' = [prices EXCEPT !.input = i]
       \/ \E o \in OutputSides : prices' = [prices EXCEPT !.output = o]
    /\ prices' # prices
    /\ UNCHANGED <<cost, providerVars, runnerVars>>

(***************************************************************************)
(* Specifications                                                          *)
(***************************************************************************)
InitRunnerVars ==
    /\ models = Registry
    /\ pc = "idle"
    /\ call = NoCall
    /\ registryLookups = 0
    /\ execCalls = <<>>
    /\ produced = <<>>
    /\ sink = <<>>
    /\ received = <<>>
    /\ rxOpen = TRUE
    /\ result = NoResult

Init ==
    /\ op = IdleOp
    /\ prices = EmptyPrices
    /\ cost = IdleCost
    /\ InitRunnerVars

Next ==
    \/ RunnerCall
    \/ BackendChunk
    \/ BackendSendFails
    \/ BackendFinish
    \/ ConsumerRecv
    \/ ConsumerDrop

\* One chat_completion call of the runner, its backend and its sink.
Spec == Init /\ [][Next]_vars

InitProvider == Init

NextProvider ==
    \/ FromStr
    \/ ApiKey
    \/ RequiredEnvVars

\* The provider-identity operations applied to bounded inputs.
SpecProvider == InitProvider /\ [][NextProvider]_vars

InitCost ==
    /\ op = IdleOp
    /\ prices \in PriceTables
    /\ cost = IdleCost
    /\ InitRunnerVars

NextCost ==
    \/ EstimateInputCost
    \/ EstimateOutputCost
    \/ EstimateCostInput
    \/ EstimateCostOutput
    \/ RefreshPrices

\* The cost estimation on a pricing source that other tasks refresh.
SpecCost == InitCost /\ [][NextCost]_vars

(***************************************************************************)
(* Properties                                                              *)
(***************************************************************************)
\* The tag each identity is written with in a model identifier.
ProviderTag ==
    [p \in LanguageModelProviderName |->
        CASE p = "Anthropic" -> T_anthropic
          [] p = "Mistral" -> T_mistral
          [] p = "OpenAI" -> T_openai
          [] p = "OpenAIAzure" -> T_openai_azure
          [] p = "Gemini" -> T_gemini
          [] p = "Groq" -> T_groq
          [] p = "Bedrock" -> T_bedrock]

\* The text before the first separator of an identifier that has one.
BeforeFirstSep(id) == SubSeq(id, 1, FirstSep(id) - 1)

\* Everything after the first separator of an identifier that has one.
AfterFirstSep(id) == SubSeq(id, FirstSep(id) + 1, Len(id))

IsBlank(s) == \A i \in 1..Len(s) : s[i] = " "

\* The identifier is <tag>:<model> with a defined tag and a non-empty model.
WellFormed(id) ==
    /\ HasSep(id)
    /\ BeforeFirstSep(id) \in {ProviderTag[p] : p \in LanguageModelProviderName}
    /\ AfterFirstSep(id) # <<>>

\* C1: for every identifier "<tag>:<model>" with a defined tag and a
\* non-empty model, the runner splits on the first separator only: the
\* executor is called with the identity of <tag> and with everything after
\* the first ':' verbatim, further ':' characters included.
C1_SplitsOnFirstSeparator ==
    \A p \in LanguageModelProviderName :
        (/\ pc # "idle"
         /\ HasSep(call.model)
         /\ BeforeFirstSep(call.model) = ProviderTag[p]
         /\ AfterFirstSep(call.model) # <<>>)
            => /\ Len(execCalls) = 1
               /\ execCalls[1].args.provider_name = p
               /\ execCalls[1].args.model = AfterFirstSep(call.model)

\* C1 witness: "bedrock::m" reached the executor as ("Bedrock", ":m").
C1_Witness ==
    /\ pc # "idle"
    /\ call.model = T_bedrock \o <<Sep, Sep, "m">>
    /\ Len(execCalls) = 1
    /\ execCalls[1].args.provider_name = "Bedrock"
    /\ execCalls[1].args.model = <<Sep, "m">>

\* C2 as stated: an identifier with no separator, with an empty model
\* portion, or with a model portion that is empty after trimming whitespace
\* is rejected and never accepted as a model name.  Read in its weakest
\* form: any error counts as the rejection.
C2_RejectsBlankModel ==
    (pc # "idle" /\ (~HasSep(call.model) \/ IsBlank(AfterFirstSep(call.model))))
        => /\ execCalls = <<>>
           /\ pc = "done"
           /\ result.tag = "Err"

\* C2 amended: an identifier with no separator or with nothing after its
\* first separator is rejected with the invalid-format error and never
\* reaches an executor; the model portion is not trimmed, so a model made of
\* whitespace after a defined tag is handed to the executor as it is.
C2_RejectsEmptyModel ==
    /\ (pc # "idle" /\ (~HasSep(call.model) \/ AfterFirstSep(call.model) = <<>>))
            => /\ execCalls = <<>>
               /\ result.tag = "Err"
               /\ result.kind = "Invalid model format"
    /\ \A p \in LanguageModelProviderName :
        (/\ pc # "idle"
         /\ HasSep(call.model)
         /\ BeforeFirstSep(call.model) = ProviderTag[p]
         /\ AfterFirstSep(call.model) # <<>>
         /\ IsBlank(AfterFirstSep(call.model)))
            => /\ Len(execCalls) = 1
               /\ execCalls[1].args.model = AfterFirstSep(call.model)

\* C2 witness: "openai:" was rejected without an executor call.
C2_Witness ==
    /\ pc = "done"
    /\ call.model = T_openai \o <<Sep>>
    /\ execCalls = <<>>
    /\ result.tag = "Err"
    /\ result.kind = "Invalid model format"

\* C3: from_str is an exact, case-sensitive match: each of the seven tags
\* resolves to the identity written with that tag (so distinct tags give
\* distinct identities and each identity has exactly one tag), and every
\* other string is an error, never a provider.
C3_FromStrExact ==
    op.name = "from_str"
        => /\ (op.s \in {ProviderTag[p] : p \in LanguageModelProviderName})
                => op.out.tag = "Ok"
           /\ op.out.tag = "Ok"
                => /\ op.out.val \in LanguageModelProviderName
                   /\ ProviderTag[op.out.val] = op.s
           /\ (\A p, q \in LanguageModelProviderName : ProviderTag[p] = ProviderTag[q] => p = q)
           /\ (op.s \notin {ProviderTag[p] : p \in LanguageModelProviderName})
                => op.out.tag = "Err"

\* C3 witness: "openai-azure" resolved to OpenAIAzure.
C3_Witness ==
    /\ op.name = "from_str"
    /\ op.s = T_openai_azure
    /\ op.out = Ok("OpenAIAzure")

\* C4: required_env_vars always holds the identity's primary API-key name;
\* for Bedrock also the region and access-key-id names (size >= 3), for
\* OpenAIAzure also the resource-id and deployment-name names (size >= 3),
\* and for each of the other five identities exactly one name.
C4_RequiredEnvVars ==
    op.name = "required_env_vars"
        => /\ api_key_name(op.p) \in op.out
           /\ op.p = "Bedrock"
                => /\ {AWS_REGION, AWS_ACCESS_KEY_ID} \subseteq op.out
                   /\ Cardinality(op.out) >= 3
           /\ op.p = "OpenAIAzure"
                => /\ {OPENAI_AZURE_RESOURCE_ID, OPENAI_AZURE_DEPLOYMENT_NAME} \subseteq op.out
                   /\ Cardinality(op.out) >= 3
           /\ op.p \notin {"Bedrock", "OpenAIAzure"} => Cardinality(op.out) = 1

\* C4 witness: the three names of Bedrock.
C4_Witness ==
    /\ op.name = "required_env_vars"
    /\ op.p = "Bedrock"
    /\ Cardinality(op.out) = 3

\* C5: api_key returns the value stored under the identity's primary key
\* variable when env has it and an error naming the variable when env has
\* not; no fallback or empty key stands in for an absent variable, and the
\* other variables of env do not change the result.
C5_ApiKeyFailsClosed ==
    op.name = "api_key"
        => LET name == api_key_name(op.p)
               only == [n \in DOMAIN op.env \cap {name} |-> op.env[n]]
           IN  /\ name \in DOMAIN op.env
                    => /\ op.out.tag = "Ok"
                       /\ op.out.val = op.env[name]
               /\ name \notin DOMAIN op.env
                    => /\ op.out.tag = "Err"
                       /\ op.out.arg = name
               /\ api_key(op.p, only) = op.out

\* C5 witness: OpenAI's key is absent while another provider's key is set.
C5_Witness ==
    /\ op.name = "api_key"
    /\ op.p = "OpenAI"
    /\ DOMAIN op.env = {"AZURE_API_KEY", "HOME"}
    /\ op.out.tag = "Err"
    /\ op.out.arg = "OPENAI_API_KEY"

\* The key of the estimate in progress.
CostKey == <<db_provider_name(cost.executor), cost.model>>

\* C6: whenever the input-cost estimate for (provider, model) is absent,
\* estimate_cost returns absent, whatever the output token count and
\* whether or not an output price exists; never the output cost alone.
C6_AbsentInputAbsentCost ==
    (cost.name = "estimate_cost" /\ cost.input_seen = None)
        => /\ cost.stage = "done"
           /\ cost.ret = None

\* C6 witness: no input row, an output row for the same key, output tokens.
C6_Witness ==
    /\ cost.name = "estimate_cost"
    /\ cost.input_seen = None
    /\ CostKey \in DOMAIN prices.output
    /\ cost.output_tokens > 0
    /\ cost.ret = None

\* C7: when both prices exist for (provider, model), that is when both
\* lookups of the call find a price, estimate_cost returns a present value
\* equal to the input estimate plus the output estimate, every input token
\* priced at the regular rate and none as cache write or cache read:
\* input_tokens * r_in + output_tokens * r_out, r_in and r_out the rates
\* each lookup found.
C7_CostIsSum ==
    (/\ cost.name = "estimate_cost"
     /\ cost.input_seen.tag = "Some"
     /\ cost.output_seen.tag = "Some")
        => /\ cost.stage = "done"
           /\ cost.ret.tag = "Some"
           /\ cost.ret.val = cost.input_tokens * cost.input_seen.val.regular
                             + cost.output_tokens * cost.output_seen.val

\* C7 witness: both rows found, tokens on both sides, a present estimate.
C7_Witness ==
    /\ cost.name = "estimate_cost"
    /\ cost.stage = "done"
    /\ cost.input_seen.tag = "Some"
    /\ cost.output_seen.tag = "Some"
    /\ cost.input_tokens = MaxTokens
    /\ cost.output_tokens = 1
    /\ cost.input_seen.val.regular # cost.input_seen.val.cache_write
    /\ cost.ret = Some(MaxTokens * cost.input_seen.val.regular + cost.output_seen.val)

\* The sink of a streaming call, as the caller sees it.
IsPrefix(a, b) == Len(a) <= Len(b) /\ a = SubSeq(b, 1, Len(a))

\* C8: in a streaming call the chunks on the sink are the chunks the
\* backend emitted, in emission order, none dropped, duplicated or
\* reordered: what was received is always a prefix of what was emitted;
\* while the receiving end lives, received plus buffered is exactly what
\* was emitted; a backend that closes its stream returns success and one
\* that fails returns the error, with the delivered chunks left in place.
C8_StreamInOrder ==
    (pc # "idle" /\ call.tx /\ WellFormed(call.model))
        => /\ IsPrefix(received, produced)
           /\ rxOpen => received \o sink = produced
           /\ (pc = "done" /\ rxOpen)
                => \/ result.tag = "Ok" /\ result.val = produced
                   \/ result.tag = "Err" /\ result.kind = "BackendRejected"

\* C8 witness: three chunks emitted, the same three received, success.
C8_Witness ==
    /\ pc = "done"
    /\ call.tx
    /\ Len(produced) = 3
    /\ received = produced
    /\ sink = <<>>
    /\ result.tag = "Ok"

\* C9: a run of chat_completion invokes an executor at most once: not at
\* all, and before any registry lookup, when the identifier is malformed,
\* has an empty model name or an unknown tag; exactly once otherwise, on
\* the executor registered for the resolved identity, whose result or error
\* is what the call returns.
C9_SingleAttempt ==
    /\ Len(execCalls) <= 1
    /\ (pc # "idle" /\ ~WellFormed(call.model))
            => /\ execCalls = <<>>
               /\ registryLookups = 0
               /\ pc = "done"
               /\ result.tag = "Err"
               /\ result.kind \in {"Invalid model format", "Invalid language model provider"}
    /\ \A p \in LanguageModelProviderName :
        (/\ pc # "idle"
         /\ WellFormed(call.model)
         /\ BeforeFirstSep(call.model) = ProviderTag[p])
            => /\ Len(execCalls) = 1
               /\ registryLookups = 1
               /\ execCalls[1].executor = models[p]
               /\ pc = "done"
                    => \/ result.tag = "Ok" /\ result.val = produced
                       \/ result.tag = "Err" /\ result.kind \in {"BackendRejected", "SinkClosed"}

\* C9 witness: the Bedrock executor was called once, failed, and the call
\* returned its error.
C9_Witness ==
    /\ pc = "done"
    /\ Len(execCalls) = 1
    /\ execCalls[1].executor = "AnthropicBedrock"
    /\ registryLookups = 1
    /\ result.tag = "Err"
    /\ result.kind = "BackendRejected"

\* C10 as stated: when input pricing is missing, estimate_cost still
\* performs the output-price lookup before it returns absent.
C10_OutputStillComputed ==
    (cost.name = "estimate_cost" /\ cost.stage = "done" /\ cost.input_seen = None)
        => \E i \in 1..Len(cost.calls) : cost.calls[i] = "estimate_output_cost"

\* C10 amended: when input pricing is missing, estimate_cost returns absent
\* at once: the input estimate is the only lookup it makes and the output
\* cost is not computed.
C10_ShortCircuit ==
    (cost.name = "estimate_cost" /\ cost.input_seen = None)
        => /\ cost.calls = <<"estimate_input_cost">>
           /\ cost.output_seen = NotLooked
           /\ cost.stage = "done"
           /\ cost.ret = None

\* C10 witness: an estimate that found no input row made one lookup, with
\* an output row on file.
C10_Witness ==
    /\ cost.name = "estimate_cost"
    /\ cost.input_seen = None
    /\ prices.output # <<>>
    /\ cost.calls = <<"estimate_input_cost">>
    /\ cost.output_seen = NotLooked
    /\ cost.ret = None

====
